---- MODULE Spec2Model ----
(***************************************************************************)
(* A model of src/bot.py: the period resolver (get_date_range,             *)
(* _berlin_date_range), the two channel clients (fetch_shopify_orders,     *)
(* fetch_flour_cloud_docs), the aggregators built on them, the daily       *)
(* report job (main, send_daily_report, _safe_fetch) and the Telegram      *)
(* handler (handle_message, parse_intent, the fmt_ functions).             *)
(*                                                                         *)
(* Five specifications share the module; each one pins the variables it    *)
(* does not use:                                                           *)
(*   SpecReport / FairReport  the daily report job                         *)
(*   SpecFetch                one channel fetch and its aggregation        *)
(*   SpecAgg                  the four aggregators on fetched records      *)
(*   SpecDates                period resolution for one "now"              *)
(*   SpecChat                 one update through handle_message            *)
(***************************************************************************)
EXTENDS Integers, Sequences, FiniteSets, TLC

VARIABLES
    \* ---- daily report (bot.py 30-31, 702-749, 867-881)
    chat_id,        \* DAILY_REPORT_CHAT_ID
    started,        \* main() has run
    job_registered, \* run_daily(send_daily_report) was registered
    rpc,            \* position inside send_daily_report
    src,            \* index of the source being fetched (1..5)
    attempt,        \* _safe_fetch's loop variable
    results,        \* retail_yday, retail_mtd, online_yday, online_mtd, restaurant
    calls,          \* per source, the outcome of every call fn(*args) made
    sleeps,         \* every asyncio.sleep made: <<source, attempt, delay>>
    outbox,         \* messages handed to context.bot.send_message
    \* ---- channel fetch (bot.py 103-145, 185-259)
    channel,        \* which client runs: "A" (Shopify) or "B" (Flour Cloud)
    start_date,     \* window start (a day number)
    end_date,       \* window end
    fpc,            \* position inside the fetch: "request", "done", "raised"
    skip,           \* B: the offset of the next request
    url,            \* A: the URL of the next request
    all_docs,       \* all_orders / all_docs gathered so far
    requests,       \* every request issued, with the response it got
    fetched,        \* what the fetch returned to its caller (NoResult before)
    agg,            \* what the aggregator returned (NoResult before)
    query,          \* the aggregator that was called, and its product argument
    \* ---- period resolution (bot.py 56-78, 152-182)
    now,            \* datetime.now(timezone.utc), to the second
    berlin_offset,  \* the UTC offset of Europe/Berlin at now, in seconds
    period,         \* the period token
    dpc,            \* "input" before the resolvers ran, "resolved" after
    utc_range,      \* get_date_range(period)
    civil_range,    \* _berlin_date_range(period)
    \* ---- handle_message (bot.py 756-860)
    allowed_user_ids, \* ALLOWED_USER_IDS
    update,         \* the incoming update: user id and message text
    hpc,            \* "update", "checking", "done", "ignored" or "escaped"
    response,       \* what the classifier call did
    parsed,         \* parse_intent(text)
    shopify_data,   \* what the Shopify read of the request returned
    fc_data,        \* what the Flour Cloud read of the request returned
    fetch_log,      \* the reads the request made, in order
    replies         \* the reply_text calls, in order

report_vars == <<chat_id, started, job_registered, rpc, src, attempt, results,
                 calls, sleeps, outbox>>
fetch_vars  == <<channel, start_date, end_date, fpc, skip, url, all_docs,
                 requests, fetched, agg, query>>
date_vars   == <<now, berlin_offset, period, dpc, utc_range, civil_range>>
chat_vars   == <<allowed_user_ids, update, hpc, response, parsed, shopify_data,
                 fc_data, fetch_log, replies>>
vars == <<report_vars, fetch_vars, date_vars, chat_vars>>

\* Python's None, and "no value yet".
None == [none |-> TRUE]
NoResult == [pending |-> TRUE]

(***************************************************************************)
(* Daily report                                                            *)
(***************************************************************************)

\* Largest amount (in euros) a source returns.
MaxAmount == 1
Amounts == 0..MaxAmount

\* The values DAILY_REPORT_CHAT_ID can take (bot.py 30-31): None when the
\* environment variable is empty, else int(...) of it, which may be 0.
NoChat == [unset |-> TRUE]
ChatIds == {NoChat, [id |-> 0], [id |-> 42]}

\* Python truthiness of DAILY_REPORT_CHAT_ID: None and 0 are falsy.
Truthy(c) == "id" \in DOMAIN c /\ c.id /= 0

\* The five reads, in the order of bot.py 723-727.
Sources == <<"retail_yday", "retail_mtd", "online_yday", "online_mtd", "restaurant">>
NSources == Len(Sources)

\* _safe_fetch's defaults (bot.py 711).
retries == 3
delay == 300

\* What one call fn(*args) can do: raise, or return its dict.
\* flour_cloud_sales / shopify_sales return {"revenue": ..} (bot.py 132, 244),
\* restaurant_sales_all returns {"yesterday": .., "mtd": ..} (bot.py 324, 331).
Raised == [raised |-> TRUE]
Returns(s) ==
    IF Sources[s] = "restaurant"
    THEN {[yesterday |-> a, mtd |-> b] : a \in Amounts, b \in Amounts}
    ELSE {[revenue |-> a] : a \in Amounts}
Outcomes(s) == {Raised} \cup Returns(s)

Unavailable == [unavailable |-> TRUE]
Euro(v) == [eur |-> v]

\* _fmt (bot.py 729-730) and _fmt_r (bot.py 732-733).
Fmt(data) == IF data /= None THEN Euro(data.revenue) ELSE Unavailable
Fmt_r(restaurant, key) ==
    IF restaurant /= None
    THEN Euro(IF key = "yesterday" THEN restaurant.yesterday ELSE restaurant.mtd)
    ELSE Unavailable

\* msg (bot.py 735-747): the six lines of the digest.
Digest(r) ==
    [chat |-> chat_id,
     yday_retail     |-> Fmt(r[1]),
     yday_online     |-> Fmt(r[3]),
     yday_restaurant |-> Fmt_r(r[5], "yesterday"),
     mtd_retail      |-> Fmt(r[2]),
     mtd_online      |-> Fmt(r[4]),
     mtd_restaurant  |-> Fmt_r(r[5], "mtd")]

ReportIdle ==
    /\ started = FALSE
    /\ job_registered = FALSE
    /\ rpc = "idle"
    /\ src = 0
    /\ attempt = 0
    /\ results = [s \in 1..NSources |-> NoResult]
    /\ calls = [s \in 1..NSources |-> <<>>]
    /\ sleeps = <<>>
    /\ outbox = <<>>

\* main (bot.py 867-881): the job is registered only for a truthy chat id.
MainRegisters == Truthy(chat_id)
Main ==
    /\ started = FALSE
    /\ started' = TRUE
    /\ job_registered' = MainRegisters
    /\ UNCHANGED <<chat_id, rpc, src, attempt, results, calls, sleeps, outbox>>
    /\ UNCHANGED <<fetch_vars, date_vars, chat_vars>>

\* The guard of send_daily_report (bot.py 703-705).
SkipsNever == FALSE
Skips == ~Truthy(chat_id)

\* Entry of send_daily_report: return at once when the guard skips, else
\* go on to the first _safe_fetch.
Enter ==
    /\ rpc = "idle"
    /\ IF Skips
       THEN /\ rpc' = "skipped"
            /\ UNCHANGED <<src, attempt>>
       ELSE /\ rpc' = "fetch"
            /\ src' = 1
            /\ attempt' = 1
    /\ UNCHANGED <<chat_id, started, job_registered, results, calls, sleeps, outbox>>
    /\ UNCHANGED <<fetch_vars, date_vars, chat_vars>>

\* The job queue fires the registered job.
JobTrigger ==
    /\ job_registered
    /\ Enter

\* send_daily_report called directly although main registered no job.
DirectInvoke ==
    /\ started
    /\ ~job_registered
    /\ Enter

\* _safe_fetch returns v for the current source (bot.py 714, 721): the
\* next source starts at attempt 1; after the fifth the digest is rendered
\* and handed to send_message (bot.py 729-749).
Settle(v) ==
    /\ results' = [results EXCEPT ![src] = v]
    /\ IF src < NSources
       THEN /\ src' = src + 1
            /\ attempt' = 1
            /\ rpc' = "fetch"
            /\ UNCHANGED outbox
       ELSE /\ outbox' = Append(outbox, Digest(results'))
            /\ rpc' = "done"
            /\ UNCHANGED <<src, attempt>>

\* What _safe_fetch does with a call that raised (bot.py 715-721).
OnRaisePropagate ==
    /\ rpc' = "crashed"
    /\ UNCHANGED <<src, attempt, results, sleeps, outbox>>
OnRaiseSleepsAfterLast ==
    IF attempt < retries
    THEN /\ rpc' = "sleep"
         /\ sleeps' = Append(sleeps, <<src, attempt, delay>>)
         /\ UNCHANGED <<src, attempt, results, outbox>>
    ELSE /\ Settle(None)
         /\ sleeps' = Append(sleeps, <<src, attempt, delay>>)
OnRaise ==
    IF attempt < retries
    THEN /\ rpc' = "sleep"
         /\ sleeps' = Append(sleeps, <<src, attempt, delay>>)
         /\ UNCHANGED <<src, attempt, results, outbox>>
    ELSE /\ Settle(None)
         /\ UNCHANGED sleeps

\* What _safe_fetch does with a call that returned d (bot.py 714).
OnReturnKeepTrying(d) ==
    IF attempt < retries
    THEN /\ attempt' = attempt + 1
         /\ results' = [results EXCEPT ![src] = d]
         /\ UNCHANGED <<rpc, src, sleeps, outbox>>
    ELSE /\ Settle(d)
         /\ UNCHANGED sleeps
OnReturn(d) ==
    /\ Settle(d)
    /\ UNCHANGED sleeps

\* One pass of _safe_fetch's loop body (bot.py 712-719): call fn(*args).
Attempt ==
    /\ rpc = "fetch"
    /\ \E o \in Outcomes(src) :
        /\ calls' = [calls EXCEPT ![src] = Append(@, o)]
        /\ IF o = Raised THEN OnRaise ELSE OnReturn(o)
    /\ UNCHANGED <<chat_id, started, job_registered>>
    /\ UNCHANGED <<fetch_vars, date_vars, chat_vars>>

\* asyncio.sleep(delay) returns (bot.py 719): the loop goes to the next attempt.
Wake ==
    /\ rpc = "sleep"
    /\ rpc' = "fetch"
    /\ attempt' = attempt + 1
    /\ UNCHANGED <<chat_id, started, job_registered, src, results, calls, sleeps, outbox>>
    /\ UNCHANGED <<fetch_vars, date_vars, chat_vars>>

\* The other two machines, pinned.
FetchIdle ==
    /\ channel = "none"
    /\ start_date = 0
    /\ end_date = 0
    /\ fpc = "off"
    /\ skip = 0
    /\ url = "none"
    /\ all_docs = <<>>
    /\ requests = <<>>
    /\ fetched = NoResult
    /\ agg = NoResult
    /\ query = NoResult

DatesIdle ==
    /\ now = NoResult
    /\ berlin_offset = 0
    /\ period = "none"
    /\ dpc = "off"
    /\ utc_range = NoResult
    /\ civil_range = NoResult

\* No update is being handled.
ChatIdle ==
    /\ allowed_user_ids = <<>>
    /\ update = NoResult
    /\ hpc = "idle"
    /\ response = NoResult
    /\ parsed = NoResult
    /\ shopify_data = NoResult
    /\ fc_data = NoResult
    /\ fetch_log = <<>>
    /\ replies = <<>>

InitReport ==
    /\ chat_id \in ChatIds
    /\ ReportIdle
    /\ FetchIdle
    /\ DatesIdle
    /\ ChatIdle

NextReport ==
    \/ Main
    \/ JobTrigger
    \/ DirectInvoke
    \/ Attempt
    \/ Wake

SpecReport == InitReport /\ [][NextReport]_vars

\* The event loop runs every ready step of the job: the job fires, the call
\* returns or raises, the sleep ends.
FairReport == SpecReport /\ WF_vars(NextReport)

(***************************************************************************)
(* Channel clients                                                         *)
(***************************************************************************)

\* Page sizes: PAGE is fetch_flour_cloud_docs's PAGE (1000 in bot.py 189) and
\* ShopifyLimit the "limit" of fetch_shopify_orders (250 in bot.py 110, 118),
\* both scaled down so that full pages can be enumerated.
PAGE == 2
ShopifyLimit == 2
\* The most records the server hands out during one fetch.
MaxDocs == 4
\* Document dates and window bounds are day numbers 1..MaxDay.
MaxDay == 2
Days == 1..MaxDay

Min(a, b) == IF a < b THEN a ELSE b

\* All sequences over S of length at most n.
SeqsUpTo(S, n) == UNION {[1..k -> S] : k \in 0..n}

\* ---- texts: what a "date" or a price field holds
IsoText(d) == [iso |-> d]        \* "YYYY-MM-DD..." naming day d
NumText(n) == [num |-> n]        \* a decimal numeral
JunkText == [junk |-> TRUE]      \* any other text
EmptyText == [empty |-> TRUE]    \* ""

\* dict.get(key, default)
Get(d, key, default) == IF key \in DOMAIN d THEN d[key] ELSE default

\* str(doc.get("date", ""))[:10] (bot.py 210, 226)
DateStr(doc) == Get(doc, "date", EmptyText)

\* datetime.fromisoformat(text).date() (bot.py 212, 228): the day, or ValueError.
ValueError == [raised |-> "ValueError"]
FromIsoFormat(text) == IF "iso" \in DOMAIN text THEN [day |-> text.iso] ELSE ValueError

\* response.raise_for_status() (bot.py 115, 199): raises for 4xx and 5xx.
RaisesNever(status) == FALSE
RaisesForStatus(status) == 400 <= status /\ status < 600

Statuses == {200, 404, 500}

\* A JSON object that only describes an error, such as {"errors": "..."}.
ErrorDocument == [kind |-> "dict", fields |-> ("errors" :> <<>>)]

\* A response body that is not JSON: response.json() raises (bot.py 116, 201).
NotJson == [kind |-> "notjson"]

\* ---- aggregators (bot.py 128-132, 235-244)

RECURSIVE SumSeq(_)
SumSeq(q) == IF q = <<>> THEN 0 ELSE q[1] + SumSeq(Tail(q))

\* float(x) of a field (bot.py 131, 243): its value, or ValueError.
Float(text) == IF "num" \in DOMAIN text THEN [val |-> text.num] ELSE ValueError

\* The tail of shopify_sales (bot.py 131-132): sum(float(o["total_price"]))
\* raises as soon as one price does not convert.
ShopifySales(orders) ==
    IF \E i \in 1..Len(orders) : Float(orders[i].total_price) = ValueError
    THEN ValueError
    ELSE [revenue |-> SumSeq([i \in 1..Len(orders) |-> Float(orders[i].total_price).val]),
          order_count |-> Len(orders)]

\* The items of a document that flour_cloud_sales adds up (bot.py 240-243).
Counted(doc) ==
    SelectSeq(Get(doc, "items", <<>>), LAMBDA item : ~Get(item, "cancelled", FALSE))
ItemTotal(item) == Float(Get(item, "totalIncVat", NumText(0)))

\* The tail of flour_cloud_sales (bot.py 238-244).
FlourCloudSales(docs) ==
    IF \E i \in 1..Len(docs) : \E j \in 1..Len(Counted(docs[i])) :
            ItemTotal(Counted(docs[i])[j]) = ValueError
    THEN ValueError
    ELSE [revenue |-> SumSeq([i \in 1..Len(docs) |->
                        SumSeq([j \in 1..Len(Counted(docs[i])) |->
                                    ItemTotal(Counted(docs[i])[j]).val])]),
          transaction_count |-> Len(docs)]

\* ---- product aggregators (bot.py 135-145, 247-259)

\* A title or a needle is a sequence of characters.
LowerChar(c) ==
    CASE c = "R" -> "r" [] c = "I" -> "i" [] c = "C" -> "c" [] c = "E" -> "e"
      [] c = "D" -> "d" [] c = "A" -> "a" [] c = "L" -> "l" [] OTHER -> c
\* str.lower()
Lower(t) == [i \in 1..Len(t) |-> LowerChar(t[i])]
\* needle in text
Contains(text, needle) ==
    \E k \in 0..(Len(text) - Len(needle)) :
        \A i \in 1..Len(needle) : text[k + i] = needle[i]

TypeError == [raised |-> "TypeError"]
IsRaised(x) == "raised" \in DOMAIN x

RECURSIVE Flatten(_)
Flatten(qq) == IF qq = <<>> THEN <<>> ELSE qq[1] \o Flatten(Tail(qq))

\* The loop body of shopify_product_sales for one matching item (bot.py
\* 143-144): total_qty += item["quantity"] raises TypeError for a quantity
\* that is a string, float(item["price"]) raises ValueError.
RECURSIVE ShopifyAddItems(_, _)
ShopifyAddItems(items, acc) ==
    IF items = <<>> THEN acc
    ELSE LET item == items[1]
         IN  IF "int" \notin DOMAIN item.quantity THEN TypeError
             ELSE IF Float(item.price) = ValueError THEN ValueError
             ELSE ShopifyAddItems(Tail(items),
                    [quantity |-> acc.quantity + item.quantity.int,
                     revenue |-> acc.revenue + Float(item.price).val * item.quantity.int])

\* shopify_product_sales after its fetch (bot.py 138-145).
ShopifyProductSales(orders, product) ==
    LET needle == Lower(product)
        items == Flatten([i \in 1..Len(orders) |-> Get(orders[i], "line_items", <<>>)])
        matching == SelectSeq(items, LAMBDA item : Contains(Lower(item.title), needle))
        total == ShopifyAddItems(matching, [quantity |-> 0, revenue |-> 0])
    IN  IF IsRaised(total) THEN total
        ELSE [product |-> product, quantity |-> total.quantity, revenue |-> total.revenue]

\* The loop body of flour_cloud_product_sales for one matching item (bot.py
\* 257-258): int(item.get("amount", 0)) and float(item.get("totalIncVat", 0))
\* raise ValueError for a text that is no numeral.
RECURSIVE FlourCloudAddItems(_, _)
FlourCloudAddItems(items, acc) ==
    IF items = <<>> THEN acc
    ELSE LET item == items[1]
             amount == Float(Get(item, "amount", NumText(0)))
             total == Float(Get(item, "totalIncVat", NumText(0)))
         IN  IF amount = ValueError \/ total = ValueError THEN ValueError
             ELSE FlourCloudAddItems(Tail(items),
                    [quantity |-> acc.quantity + amount.val,
                     revenue |-> acc.revenue + total.val])

\* flour_cloud_product_sales after its fetch (bot.py 250-259).
FlourCloudProductSales(docs, product) ==
    LET needle == Lower(product)
        items == Flatten([i \in 1..Len(docs) |-> Counted(docs[i])])
        matching == SelectSeq(items, LAMBDA item :
                        Contains(Lower(Get(item, "title", <<>>)), needle))
        total == FlourCloudAddItems(matching, [quantity |-> 0, revenue |-> 0])
    IN  IF IsRaised(total) THEN total
        ELSE [product |-> product, quantity |-> total.quantity, revenue |-> total.revenue]

\* ---- Channel A: fetch_shopify_orders (bot.py 103-125)

\* A Shopify order of the listing; financial_status may be absent.
Orders ==
    {[financial_status |-> fs, total_price |-> NumText(1)] : fs \in {"paid", "refunded", "voided"}}
    \cup {[total_price |-> NumText(1)], [financial_status |-> "paid", total_price |-> NumText(2)]}

\* The Link header: its comma-separated parts, each <target>; rel="..".
NextUrls == {"page_info_a", "page_info_b"}
LinkHeaders ==
    {<<>>, <<[target |-> "page_info_0", rel |-> "previous"]>>}
    \cup {<<[target |-> u, rel |-> "next"]>> : u \in NextUrls}
    \cup {<<[target |-> "page_info_0", rel |-> "previous"], [target |-> u, rel |-> "next"]>> :
            u \in NextUrls}

\* _parse_next_link (bot.py 96-100): the target of the first part whose
\* rel is "next", or None.
ParseNextLinkFirstPart(link_header) ==
    IF link_header = <<>> THEN None ELSE [url |-> link_header[1].target]
RECURSIVE ParseNextLink(_)
ParseNextLink(link_header) ==
    IF link_header = <<>> THEN None
    ELSE IF link_header[1].rel = "next" THEN [url |-> link_header[1].target]
    ELSE ParseNextLink(Tail(link_header))

\* response.json().get("orders", []) (bot.py 116).
ExtractOrders(data) ==
    IF data.kind = "dict" THEN [page |-> Get(data.fields, "orders", <<>>)]
    ELSE [raised |-> "AttributeError"]

\* The post-filter (bot.py 125): o.get("financial_status") not in ("refunded", "voided").
FilterOrdersKeepsAll(orders) == orders
FilterOrders(orders) ==
    SelectSeq(orders, LAMBDA o : Get(o, "financial_status", "None") \notin {"refunded", "voided"})

ResponsesA ==
    LET room == Min(ShopifyLimit, MaxDocs - Len(all_docs))
    IN  {[status |-> st, body |-> b, link |-> <<>>] :
                st \in Statuses \ {200}, b \in {ErrorDocument, NotJson}}
        \cup {[status |-> 200, body |-> b, link |-> h] :
                b \in {[kind |-> "dict", fields |-> ("orders" :> p)] : p \in SeqsUpTo(Orders, room)}
                      \cup {ErrorDocument, [kind |-> "scalar"], NotJson},
                h \in LinkHeaders}

\* One pass of the loop of fetch_shopify_orders (bot.py 113-124); the pass
\* that leaves the loop also filters and returns (bot.py 125), and
\* shopify_sales aggregates what it got (bot.py 131-132).
FetchA ==
    /\ channel = "A"
    /\ fpc = "request"
    /\ \E resp \in ResponsesA :
        LET raises == RaisesForStatus(resp.status)
            data == resp.body
            readable == ~raises /\ data.kind /= "notjson"
            got == IF readable THEN ExtractOrders(data) ELSE [raised |-> "HTTPError or JSONDecodeError"]
            ok == "page" \in DOMAIN got
            page == IF ok THEN got.page ELSE <<>>
            next_url == ParseNextLink(resp.link)
            entry == [url |-> url, status |-> resp.status, kind |-> data.kind,
                      page |-> page, link |-> resp.link]
        IN  /\ requests' = Append(requests, entry)
            /\ IF ~ok
               THEN /\ fpc' = "raised"
                    /\ UNCHANGED <<url, all_docs, fetched, agg>>
               ELSE /\ all_docs' = all_docs \o page
                    /\ IF Len(page) < ShopifyLimit \/ next_url = None
                       THEN /\ fpc' = "done"
                            /\ fetched' = FilterOrders(all_docs')
                            /\ agg' = ShopifySales(fetched')
                            /\ UNCHANGED url
                       ELSE /\ url' = next_url.url
                            /\ UNCHANGED <<fpc, fetched, agg>>
    /\ UNCHANGED <<channel, start_date, end_date, skip, query>>
    /\ UNCHANGED <<report_vars, date_vars, chat_vars>>

\* ---- Channel B: fetch_flour_cloud_docs (bot.py 185-232)

\* A Flour Cloud document: its date is an ISO text, some other text, or absent.
Docs ==
    {[type |-> "R", date |-> IsoText(d)] : d \in Days}
    \cup {[type |-> "R", date |-> JunkText], [type |-> "R"]}

KnownKeys == <<"docs", "documents", "data">>

\* The JSON bodies a 2xx response can carry for a page of documents p: the
\* bare list, the list under one of the known keys (alone, or after an
\* empty "docs"), a dict with none of the keys, a JSON scalar (null, a
\* number, a string), and a body that is not JSON.
BodiesB(p) ==
    {[kind |-> "list", items |-> p]}
    \cup {[kind |-> "dict", fields |-> (k :> p)] : k \in {"docs", "documents", "data"}}
    \cup {[kind |-> "dict", fields |-> ("docs" :> <<>> @@ "data" :> p)]}
UnlocatableBodies == {ErrorDocument, [kind |-> "scalar"]}

\* Python's "x or y" where x is a list or None: x when it is a non-empty
\* list. A missing key (None) and an empty list are both falsy, so .get's
\* None is written <<>> here.
Or(x, y) == IF x /= <<>> THEN x ELSE y

\* page = data if isinstance(data, list) else (data.get("docs") or
\*        data.get("documents") or data.get("data") or [])   (bot.py 202)
\* A scalar has no .get: AttributeError.
ExtractPage(data) ==
    IF data.kind = "list" THEN [page |-> data.items]
    ELSE IF data.kind = "dict"
    THEN [page |-> Or(Get(data.fields, "docs", <<>>),
                      Or(Get(data.fields, "documents", <<>>),
                         Or(Get(data.fields, "data", <<>>), <<>>)))]
    ELSE [raised |-> "AttributeError"]

\* The early stop (bot.py 209-215): the last document of the page parses
\* to a date before start_date; a ValueError is passed over.
StopEarlyNever(page) == FALSE
StopEarly(page) ==
    LET oldest == FromIsoFormat(DateStr(page[Len(page)]))
    IN  oldest /= ValueError /\ oldest.day < start_date

\* The client-side filter (bot.py 224-232).
InWindow(doc) ==
    LET d == FromIsoFormat(DateStr(doc))
    IN  d /= ValueError /\ start_date <= d.day /\ d.day <= end_date
FilterKeepsUnparsed(docs) ==
    SelectSeq(docs, LAMBDA doc : FromIsoFormat(DateStr(doc)) = ValueError \/ InWindow(doc))
FilterDocs(docs) == SelectSeq(docs, InWindow)

\* What the server may answer to the next request of channel B.
ResponsesB ==
    LET room == Min(PAGE, MaxDocs - Len(all_docs))
    IN  {[status |-> st, body |-> b] : st \in Statuses \ {200}, b \in {ErrorDocument, NotJson}}
        \cup {[status |-> 200, body |-> b] :
                b \in UNION {BodiesB(p) : p \in SeqsUpTo(Docs, room)}
                      \cup UnlocatableBodies \cup {NotJson}}

\* Whether a body holds its item collection where line 202 looks for it.
Located(data) ==
    \/ data.kind = "list"
    \/ data.kind = "dict" /\ \E i \in 1..Len(KnownKeys) : KnownKeys[i] \in DOMAIN data.fields

\* One pass of the loop of fetch_flour_cloud_docs (bot.py 191-220); the pass
\* that leaves the loop also filters and returns (bot.py 222-232).
FetchB ==
    /\ channel = "B"
    /\ fpc = "request"
    /\ \E resp \in ResponsesB :
        LET raises == RaisesForStatus(resp.status)
            data == resp.body
            readable == ~raises /\ data.kind /= "notjson"
            got == IF readable THEN ExtractPage(data) ELSE [raised |-> "HTTPError or JSONDecodeError"]
            ok == "page" \in DOMAIN got
            page == IF ok THEN got.page ELSE <<>>
            entry == [skip |-> skip, status |-> resp.status, kind |-> data.kind,
                      located |-> readable /\ Located(data), page |-> page]
        IN  /\ requests' = Append(requests, entry)
            /\ IF ~ok
               THEN /\ fpc' = "raised"
                    /\ UNCHANGED <<skip, all_docs, fetched, agg>>
               ELSE IF page = <<>>
               THEN /\ fpc' = "done"
                    /\ fetched' = FilterDocs(all_docs)
                    /\ agg' = FlourCloudSales(fetched')
                    /\ UNCHANGED <<skip, all_docs>>
               ELSE /\ all_docs' = all_docs \o page
                    /\ IF StopEarly(page) \/ Len(page) < PAGE
                       THEN /\ fpc' = "done"
                            /\ fetched' = FilterDocs(all_docs')
                            /\ agg' = FlourCloudSales(fetched')
                            /\ UNCHANGED skip
                       ELSE /\ skip' = skip + PAGE
                            /\ UNCHANGED <<fpc, fetched, agg>>
    /\ UNCHANGED <<channel, start_date, end_date, url, query>>
    /\ UNCHANGED <<report_vars, date_vars, chat_vars>>

\* One call of shopify_sales (channel A) or flour_cloud_sales (channel B),
\* the latter for a window start_date <= end_date as _berlin_date_range
\* gives it (channel A hands its window to the server and never reads it
\* again, so one window stands for all).
InitFetch ==
    /\ channel \in {"A", "B"}
    /\ start_date \in Days
    /\ end_date \in Days
    /\ start_date <= end_date
    /\ channel = "A" => start_date = 1 /\ end_date = 1
    /\ fpc = "request"
    /\ skip = 0
    /\ url = "orders"
    /\ all_docs = <<>>
    /\ requests = <<>>
    /\ fetched = NoResult
    /\ agg = NoResult
    /\ query = [fn |-> IF channel = "A" THEN "shopify_sales" ELSE "flour_cloud_sales"]
    /\ chat_id = NoChat
    /\ ReportIdle
    /\ DatesIdle
    /\ ChatIdle

NextFetch ==
    \/ FetchA
    \/ FetchB

SpecFetch == InitFetch /\ [][NextFetch]_vars

(***************************************************************************)
(* Aggregators on fetched records                                          *)
(***************************************************************************)

\* The most records one fetch returned.
MaxRecs == 2

Titles == {<<"R", "i", "c", "e">>, <<"D", "a", "l">>}
Products == {<<"r", "i", "c", "e">>, <<"R", "I", "C", "E">>}

\* Prices and totals as the APIs send them: numerals, or some other text.
PriceTexts == {NumText(a) : a \in 1..MaxAmount} \cup {JunkText}

\* Orders as fetch_shopify_orders returns them (refunded and voided ones are
\* gone), with no line item or one.
LineItems ==
    [title : Titles, quantity : {[int |-> 1], [str |-> TRUE]}, price : {NumText(1), JunkText}]
FetchedOrders ==
    [financial_status : {"paid"}, total_price : PriceTexts,
     line_items : {<<>>} \cup {<<it>> : it \in LineItems}]

\* Documents as fetch_flour_cloud_docs returns them (dated in the window),
\* with no "items" key, no item or one item, which may be cancelled.
DocItems ==
    LET fields ==
            [title : Titles, amount : {NumText(1)}, totalIncVat : PriceTexts]
            \cup [title : Titles, amount : {JunkText}, totalIncVat : {NumText(1)}]
    IN  fields \cup {f @@ [cancelled |-> TRUE] : f \in fields}
FetchedDocs ==
    {[type |-> "R", date |-> IsoText(1)]}
    \cup [type : {"R"}, date : {IsoText(1)}, items : {<<>>} \cup {<<it>> : it \in DocItems}]

InitAgg ==
    /\ channel \in {"A", "B"}
    /\ start_date = 1
    /\ end_date = 1
    /\ fpc = "done"
    /\ skip = 0
    /\ url = "orders"
    /\ all_docs = <<>>
    /\ requests = <<>>
    /\ fetched \in SeqsUpTo(IF channel = "A" THEN FetchedOrders ELSE FetchedDocs, MaxRecs)
    /\ agg = NoResult
    /\ query = NoResult
    /\ chat_id = NoChat
    /\ ReportIdle
    /\ DatesIdle
    /\ ChatIdle

Call(fn, result) ==
    /\ agg = NoResult
    /\ agg' = result
    /\ query' = fn
    /\ UNCHANGED <<channel, start_date, end_date, fpc, skip, url, all_docs, requests, fetched>>
    /\ UNCHANGED <<report_vars, date_vars, chat_vars>>

\* shopify_sales, after its fetch returned `fetched`.
CallShopifySales ==
    /\ channel = "A"
    /\ Call([fn |-> "shopify_sales"], ShopifySales(fetched))

CallShopifyProductSales ==
    /\ channel = "A"
    /\ \E product \in Products :
        Call([fn |-> "shopify_product_sales", product |-> product],
             ShopifyProductSales(fetched, product))

CallFlourCloudSales ==
    /\ channel = "B"
    /\ Call([fn |-> "flour_cloud_sales"], FlourCloudSales(fetched))

CallFlourCloudProductSales ==
    /\ channel = "B"
    /\ \E product \in Products :
        Call([fn |-> "flour_cloud_product_sales", product |-> product],
             FlourCloudProductSales(fetched, product))

NextAgg ==
    \/ CallShopifySales
    \/ CallShopifyProductSales
    \/ CallFlourCloudSales
    \/ CallFlourCloudProductSales

SpecAgg == InitAgg /\ [][NextAgg]_vars

(***************************************************************************)
(* Period resolver                                                         *)
(***************************************************************************)

\* "now" ranges over every day of the years FirstYear..LastYear.
FirstYear == 2023
LastYear == 2024

\* ---- the calendar of Python's datetime (proleptic Gregorian)
IsLeap(y) == (y % 4 = 0 /\ y % 100 /= 0) \/ y % 400 = 0

DaysInMonth(y, m) ==
    IF m \in {4, 6, 9, 11} THEN 30
    ELSE IF m = 2 THEN (IF IsLeap(y) THEN 29 ELSE 28)
    ELSE 31

DaysBeforeYear(y) ==
    LET p == y - 1 IN p * 365 + (p \div 4) - (p \div 100) + (p \div 400)

RECURSIVE DaysBeforeMonth(_, _)
DaysBeforeMonth(y, m) ==
    IF m = 1 THEN 0 ELSE DaysBeforeMonth(y, m - 1) + DaysInMonth(y, m - 1)

\* date.toordinal(): 1 is 0001-01-01.
ToOrdinal(d) == DaysBeforeYear(d.year) + DaysBeforeMonth(d.year, d.month) + d.day

\* date.fromordinal(n)
FromOrdinal(n) ==
    LET y == CHOOSE yy \in (FirstYear - 2)..(LastYear + 1) :
                DaysBeforeYear(yy) < n /\ n <= DaysBeforeYear(yy + 1)
        r == n - DaysBeforeYear(y)
        m == CHOOSE mm \in 1..12 :
                DaysBeforeMonth(y, mm) < r /\ r <= DaysBeforeMonth(y, mm) + DaysInMonth(y, mm)
    IN  [year |-> y, month |-> m, day |-> r - DaysBeforeMonth(y, m)]

\* date.weekday(): Monday is 0.
Weekday(d) == (ToOrdinal(d) + 6) % 7

\* date - timedelta(days=k)
DateMinusDays(d, k) == FromOrdinal(ToOrdinal(d) - k)

\* The date and the time of day of a datetime.
DateOf(dt) == [year |-> dt.year, month |-> dt.month, day |-> dt.day]
At(d, sec) == [year |-> d.year, month |-> d.month, day |-> d.day, second |-> sec]

\* datetime - timedelta(days=k, seconds=n)
DateTimeMinus(dt, k, n) ==
    LET t == dt.second - n
    IN  At(FromOrdinal(ToOrdinal(DateOf(dt)) - k + (t \div 86400)), t % 86400)

\* x.replace(day=1): the other fields, the time of day among them, stay.
ReplaceDay1(x) == [x EXCEPT !.day = 1]

\* now.replace(hour=0, minute=0, second=0, microsecond=0) (bot.py 58)
TodayStart(dt) == [dt EXCEPT !.second = 0]

\* The "last_month" branch of get_date_range (bot.py 74-77).
UtcLastMonth(today_start) ==
    LET first_of_this_month == ReplaceDay1(today_start)
        last_month_end == DateTimeMinus(first_of_this_month, 0, 1)
    IN  [start |-> ReplaceDay1(last_month_end), end |-> last_month_end]

\* The "yesterday" branch of get_date_range (bot.py 61-62).
UtcYesterdaySwapped(today_start) ==
    [start |-> DateTimeMinus(today_start, 0, 1), end |-> DateTimeMinus(today_start, 1, 0)]
UtcYesterday(today_start) ==
    [start |-> DateTimeMinus(today_start, 1, 0), end |-> DateTimeMinus(today_start, 0, 1)]

\* The "last_week" branch of get_date_range (bot.py 69-71).
UtcLastWeekFromToday(today_start) ==
    [start |-> DateTimeMinus(today_start, 7, 0), end |-> DateTimeMinus(today_start, 0, 1)]
UtcLastWeek(today_start) ==
    LET this_monday == DateTimeMinus(today_start, Weekday(DateOf(today_start)), 0)
    IN  [start |-> DateTimeMinus(this_monday, 7, 0), end |-> DateTimeMinus(this_monday, 0, 1)]

\* get_date_range (bot.py 56-78).
GetDateRange(p, dt) ==
    LET today_start == TodayStart(dt)
        monday == DateTimeMinus(today_start, Weekday(DateOf(today_start)), 0)
    IN  CASE p = "today" -> [start |-> today_start, end |-> dt]
          [] p = "yesterday" -> UtcYesterday(today_start)
          [] p = "last_7_days" -> [start |-> DateTimeMinus(dt, 7, 0), end |-> dt]
          [] p = "this_week" -> [start |-> monday, end |-> dt]
          [] p = "last_week" -> UtcLastWeek(today_start)
          [] p = "this_month" -> [start |-> ReplaceDay1(today_start), end |-> dt]
          [] p = "last_month" -> UtcLastMonth(today_start)
          [] OTHER -> [start |-> today_start, end |-> dt]

\* The "last_month" branch of _berlin_date_range (bot.py 178-181).
CivilLastMonthNoRollover(today) ==
    [start |-> [today EXCEPT !.month = today.month - 1, !.day = 1],
     end |-> DateMinusDays(ReplaceDay1(today), 1)]
CivilLastMonth(today) ==
    LET first_of_this_month == ReplaceDay1(today)
        last_month_last == DateMinusDays(first_of_this_month, 1)
    IN  [start |-> ReplaceDay1(last_month_last), end |-> last_month_last]

\* _berlin_date_range after reading today (bot.py 161-182).
BerlinDateRange(p, today) ==
    LET monday == DateMinusDays(today, Weekday(today))
    IN  CASE p = "today" -> [start |-> today, end |-> today]
          [] p = "yesterday" -> [start |-> DateMinusDays(today, 1), end |-> DateMinusDays(today, 1)]
          [] p = "last_7_days" -> [start |-> DateMinusDays(today, 7), end |-> today]
          [] p = "this_week" -> [start |-> monday, end |-> today]
          [] p = "last_week" ->
                [start |-> DateMinusDays(monday, 7), end |-> DateMinusDays(monday, 1)]
          [] p = "this_month" -> [start |-> ReplaceDay1(today), end |-> today]
          [] p = "last_month" -> CivilLastMonth(today)
          [] OTHER -> [start |-> today, end |-> today]

\* datetime.now(BERLIN_TZ).date() (bot.py 159): the date, berlin_offset
\* seconds east of UTC.
BerlinToday ==
    LET t == now.second + berlin_offset
    IN  FromOrdinal(ToOrdinal(DateOf(now)) + (t \div 86400))

\* The seven tokens of PERIOD_LABELS (bot.py 81-89) and one unknown token.
Periods == {"today", "yesterday", "last_7_days", "this_week", "last_week",
            "this_month", "last_month", "next_year"}

\* Times of day, in seconds: midnight, one second later, noon, 23:00 (the
\* next day in Berlin already) and the last second of the day.
TimesOfDay == {0, 1, 43200, 82800, 86399}

\* Europe/Berlin is one hour (CET) or two hours (CEST) east of UTC.
BerlinOffsets == {3600, 7200}

InitDates ==
    /\ now \in {[year |-> y, month |-> m, day |-> d, second |-> t] :
                    y \in FirstYear..LastYear, m \in 1..12, d \in 1..31, t \in TimesOfDay}
    /\ now.day <= DaysInMonth(now.year, now.month)
    /\ berlin_offset \in BerlinOffsets
    /\ period \in Periods
    /\ dpc = "input"
    /\ utc_range = NoResult
    /\ civil_range = NoResult
    /\ chat_id = NoChat
    /\ ReportIdle
    /\ FetchIdle
    /\ ChatIdle

\* The resolvers are called for the period, as shopify_sales (bot.py 129)
\* and flour_cloud_sales (bot.py 236) call them.
Resolve ==
    /\ dpc = "input"
    /\ dpc' = "resolved"
    /\ utc_range' = GetDateRange(period, now)
    /\ civil_range' = BerlinDateRange(period, BerlinToday)
    /\ UNCHANGED <<now, berlin_offset, period>>
    /\ UNCHANGED <<report_vars, fetch_vars, chat_vars>>

NextDates ==
    \/ Resolve

SpecDates == InitDates /\ [][NextDates]_vars

(***************************************************************************)
(* Telegram handler                                                        *)
(***************************************************************************)

\* A JSON string value; None stands for null and for an absent key.
Str(x) == [s |-> x]

\* ---- what the classifier can answer (bot.py 534-608)
Intents == {"sales_by_period", "sales_by_product", "gmail_search", "company_info",
            "supplier_outstanding", "unknown"}
Channels == {"online", "retail", "total", "compare"}

EmptyDict == [k \in {} |-> None]
\* A dict with the key absent, or with the key set to one of the values.
Field(key, values) == {EmptyDict} \cup {key :> Str(v) : v \in values}

JsonObjects ==
    {[json |-> "object", fields |-> i @@ p @@ c @@ pr @@ q] :
        i \in Field("intent", Intents),
        p \in Field("period", {"last_week"}),
        c \in Field("channel", Channels),
        pr \in Field("product", {"rice"}),
        q \in Field("search_query", {"TRS"})}
\* Valid JSON that is no object: [], "sales", 42, null.
JsonScalars == {[json |-> k] : k \in {"array", "string", "number", "null"}}
Prose == [prose |-> TRUE]

\* A text is a sequence of tokens: a ``` fence, the word json, or a body
\* that is a JSON value or prose.
Fence == [tok |-> "fence"]
JsonWord == [tok |-> "json"]
Body(v) == [tok |-> "body", value |-> v]
ModelTexts ==
    {<<>>}
    \cup UNION {{<<Body(v)>>, <<Fence, Body(v), Fence>>, <<Fence, JsonWord, Body(v), Fence>>} :
                    v \in JsonObjects \cup JsonScalars \cup {Prose}}
    \cup {<<Body(Prose), Fence, JsonWord, Body(v), Fence>> : v \in JsonScalars}

\* claude.messages.create(...) (bot.py 597-602): raises, or answers with
\* no content block or with one text block.
ClassifierOutcomes ==
    {[raised |-> "APIError"], [content |-> <<>>]}
    \cup {[content |-> <<[text |-> t]>>] : t \in ModelTexts}

\* text.split("```")
RECURSIVE SplitFence(_)
SplitFence(text) ==
    IF \A i \in 1..Len(text) : text[i] /= Fence THEN <<text>>
    ELSE LET i == CHOOSE k \in 1..Len(text) :
                    text[k] = Fence /\ \A j \in 1..(k - 1) : text[j] /= Fence
         IN  <<SubSeq(text, 1, i - 1)>> \o SplitFence(SubSeq(text, i + 1, Len(text)))

\* The fence stripping of parse_intent (bot.py 604-607).
Unfence(text) ==
    IF text /= <<>> /\ text[1] = Fence
    THEN LET inner == SplitFence(text)[2]
         IN  IF inner /= <<>> /\ inner[1] = JsonWord THEN Tail(inner) ELSE inner
    ELSE text

\* json.loads(text.strip()) (bot.py 608)
JsonLoads(text) ==
    IF Len(text) = 1 /\ "value" \in DOMAIN text[1] /\ "json" \in DOMAIN text[1].value
    THEN text[1].value
    ELSE [raised |-> "JSONDecodeError"]

\* parse_intent (bot.py 596-608), given what the classifier call did.
ParseIntent(outcome) ==
    IF IsRaised(outcome) THEN outcome
    ELSE IF outcome.content = <<>> THEN [raised |-> "IndexError"]
    ELSE JsonLoads(Unfence(outcome.content[1].text))

\* parsed.get(key) (bot.py 772-776): only a dict has get.
DictGet(d, key) ==
    IF d.json = "object" THEN Get(d.fields, key, None) ELSE [raised |-> "AttributeError"]

\* ---- formatting (bot.py 81-89, 615-682)
PeriodLabel(p) ==
    CASE p = "today" -> "today"
      [] p = "yesterday" -> "yesterday"
      [] p = "last_7_days" -> "the last 7 days"
      [] p = "this_week" -> "this week (Mon -> now)"
      [] p = "last_week" -> "last week"
      [] p = "this_month" -> "this month"
      [] p = "last_month" -> "last month"
      [] OTHER -> p

FmtPeriod(data, channel_label) ==
    [kind |-> "period", channel |-> channel_label, label |-> PeriodLabel(data.period),
     revenue |-> Euro(data.revenue),
     count_label |-> IF "order_count" \in DOMAIN data THEN "Orders" ELSE "Transactions",
     count |-> IF "order_count" \in DOMAIN data THEN data.order_count
               ELSE data.transaction_count]

FmtProduct(data, channel_label) ==
    IF data.quantity = 0
    THEN [kind |-> "no_sales", product |-> data.product, label |-> PeriodLabel(data.period),
          channel_note |-> channel_label]
    ELSE [kind |-> "product", prefix |-> channel_label, product |-> data.product,
          label |-> PeriodLabel(data.period), revenue |-> Euro(data.revenue),
          units |-> data.quantity]

\* fmt_product_cross_channel (bot.py 639-655)
FmtProductCrossChannelQtyOnly(shopify, fc) ==
    IF shopify.quantity + fc.quantity = 0
    THEN [kind |-> "no_sales_either", product |-> shopify.product,
          label |-> PeriodLabel(shopify.period)]
    ELSE [kind |-> "cross_channel", product |-> shopify.product,
          label |-> PeriodLabel(shopify.period),
          online |-> Euro(shopify.revenue), online_units |-> shopify.quantity,
          retail |-> Euro(fc.revenue), retail_units |-> fc.quantity,
          combined |-> Euro(shopify.revenue + fc.revenue),
          combined_units |-> shopify.quantity + fc.quantity]
FmtProductCrossChannel(shopify, fc) ==
    LET product == shopify.product
        label == PeriodLabel(shopify.period)
        combined_rev == shopify.revenue + fc.revenue
        combined_qty == shopify.quantity + fc.quantity
    IN  IF combined_qty = 0 /\ combined_rev = 0
        THEN [kind |-> "no_sales_either", product |-> product, label |-> label]
        ELSE [kind |-> "cross_channel", product |-> product, label |-> label,
              online |-> Euro(shopify.revenue), online_units |-> shopify.quantity,
              retail |-> Euro(fc.revenue), retail_units |-> fc.quantity,
              combined |-> Euro(combined_rev), combined_units |-> combined_qty]

FmtCompare(shopify, fc) ==
    [kind |-> "compare", label |-> PeriodLabel(shopify.period),
     online |-> Euro(shopify.revenue), orders |-> shopify.order_count,
     retail |-> Euro(fc.revenue), transactions |-> fc.transaction_count,
     combined |-> Euro(shopify.revenue + fc.revenue)]

FmtTotal(shopify, fc) ==
    [kind |-> "total", label |-> PeriodLabel(shopify.period),
     combined |-> Euro(shopify.revenue + fc.revenue),
     online |-> Euro(shopify.revenue), orders |-> shopify.order_count,
     retail |-> Euro(fc.revenue), transactions |-> fc.transaction_count]

\* The fixed replies of handle_message (bot.py 769, 781, 784, 788-808, 812, 819).
Trouble == [kind |-> "trouble"]
HelpText == [kind |-> "help"]
Checking == [kind |-> "checking"]
CompanyInfo == [kind |-> "company_info"]
WhichSupplier == [kind |-> "which_supplier"]
WhatSearch == [kind |-> "what_search"]
\* The reply of the except branch, with the text of the exception (bot.py 858).
CouldntFetch(exc) == [kind |-> "couldnt_fetch", exc |-> exc.raised]

\* ---- what the reads of one request can do
Quantities == {0, 1}
FetchError == [raised |-> "RequestException"]

\* shopify_product_sales / flour_cloud_product_sales (bot.py 135-145, 247-259):
\* the fetch raises, or product.lower() raises for a product of None, or the
\* aggregate is returned.
ProductOutcomes(p, product) ==
    IF product = None THEN {FetchError, [raised |-> "AttributeError"]}
    ELSE {FetchError}
         \cup {[product |-> product.s, quantity |-> q, revenue |-> r, period |-> p] :
                    q \in Quantities, r \in Amounts}
\* shopify_sales (bot.py 128-132)
ShopifySalesOutcomes(p) ==
    {FetchError} \cup {[revenue |-> r, order_count |-> n, period |-> p] :
                            r \in Amounts, n \in Quantities}
\* flour_cloud_sales (bot.py 235-244)
FlourCloudSalesOutcomes(p) ==
    {FetchError} \cup {[revenue |-> r, transaction_count |-> n, period |-> p] :
                            r \in Amounts, n \in Quantities}
\* fetch_supplier_outstanding with fmt_supplier_outstanding, and
\* gmail_search_all with fmt_gmail_results (bot.py 814-815, 821-822).
LookupOutcomes(kind, search_query) ==
    {FetchError, [kind |-> kind, search_query |-> search_query.s]}

\* One read in the log of a request.
Read(fn, outcome) == [fn |-> fn, raised |-> IsRaised(outcome)]

\* Two reads in a row inside the try block, then fmt(first, second): the
\* second read is not made when the first raises.
TwoReads(fn1, a, fn2, b, reply) ==
    IF IsRaised(a)
    THEN [reply |-> CouldntFetch(a), log |-> <<Read(fn1, a)>>,
          shopify_data |-> NoResult, fc_data |-> NoResult]
    ELSE IF IsRaised(b)
    THEN [reply |-> CouldntFetch(b), log |-> <<Read(fn1, a), Read(fn2, b)>>,
          shopify_data |-> a, fc_data |-> NoResult]
    ELSE [reply |-> reply, log |-> <<Read(fn1, a), Read(fn2, b)>>,
          shopify_data |-> a, fc_data |-> b]

\* One read inside the try block, then fmt(data).
OneRead(fn, a, reply, online) ==
    [reply |-> IF IsRaised(a) THEN CouldntFetch(a) ELSE reply,
     log |-> <<Read(fn, a)>>,
     shopify_data |-> IF online /\ ~IsRaised(a) THEN a ELSE NoResult,
     fc_data |-> IF ~online /\ ~IsRaised(a) THEN a ELSE NoResult]

NoRead(reply) ==
    [reply |-> reply, log |-> <<>>, shopify_data |-> NoResult, fc_data |-> NoResult]

\* The try block of handle_message (bot.py 786-858): every way it can end,
\* as the reply it leaves and the reads it made.
TryBlock(intent, p, ch, product, search_query) ==
    IF intent = Str("company_info") THEN {NoRead(CompanyInfo)}
    ELSE IF intent = Str("supplier_outstanding")
    THEN IF search_query = None THEN {NoRead(WhichSupplier)}
         ELSE {OneRead("fetch_supplier_outstanding", a, a, FALSE) :
                    a \in LookupOutcomes("supplier_outstanding", search_query)}
    ELSE IF intent = Str("gmail_search")
    THEN IF search_query = None THEN {NoRead(WhatSearch)}
         ELSE {OneRead("gmail_search_all", a, a, FALSE) :
                    a \in LookupOutcomes("gmail_results", search_query)}
    ELSE IF intent = Str("sales_by_product")
    THEN IF ch \in {Str("total"), Str("compare")}
         THEN {TwoReads("shopify_product_sales", a, "flour_cloud_product_sales", b,
                        IF IsRaised(a) \/ IsRaised(b) THEN NoResult
                        ELSE FmtProductCrossChannel(a, b)) :
                    a \in ProductOutcomes(p, product), b \in ProductOutcomes(p, product)}
         ELSE IF ch = Str("retail")
         THEN {OneRead("flour_cloud_product_sales", b,
                       IF IsRaised(b) THEN NoResult ELSE FmtProduct(b, "Retail (Flour Cloud)"),
                       FALSE) :
                    b \in ProductOutcomes(p, product)}
         ELSE {OneRead("shopify_product_sales", a,
                       IF IsRaised(a) THEN NoResult ELSE FmtProduct(a, ""), TRUE) :
                    a \in ProductOutcomes(p, product)}
    ELSE IF ch = Str("compare")
    THEN {TwoReads("shopify_sales", a, "flour_cloud_sales", b,
                   IF IsRaised(a) \/ IsRaised(b) THEN NoResult ELSE FmtCompare(a, b)) :
                a \in ShopifySalesOutcomes(p), b \in FlourCloudSalesOutcomes(p)}
    ELSE IF ch = Str("total")
    THEN {TwoReads("shopify_sales", a, "flour_cloud_sales", b,
                   IF IsRaised(a) \/ IsRaised(b) THEN NoResult ELSE FmtTotal(a, b)) :
                a \in ShopifySalesOutcomes(p), b \in FlourCloudSalesOutcomes(p)}
    ELSE IF ch = Str("retail")
    THEN {OneRead("flour_cloud_sales", b,
                  IF IsRaised(b) THEN NoResult ELSE FmtPeriod(b, "Retail (Flour Cloud)"),
                  FALSE) :
                b \in FlourCloudSalesOutcomes(p)}
    ELSE {OneRead("shopify_sales", a,
                  IF IsRaised(a) THEN NoResult ELSE FmtPeriod(a, "Online (Shopify)"), TRUE) :
                a \in ShopifySalesOutcomes(p)}

\* ---- handle_message (bot.py 756-860)

\* ALLOWED_USER_IDS (bot.py 27-28) is empty or names user 7.
AllowedLists == {<<>>, <<7>>}
\* update.effective_user.id and update.message.text: no text, blank, or words.
Updates ==
    [user_id : {7, 8}, text : {None, [blank |-> TRUE], [words |-> TRUE]}]

\* not (ALLOWED_USER_IDS and user_id not in ALLOWED_USER_IDS) (bot.py 758)
Authorised(u) ==
    allowed_user_ids = <<>> \/ \E i \in 1..Len(allowed_user_ids) : allowed_user_ids[i] = u.user_id
\* (update.message.text or "").strip() is not empty (bot.py 762-763)
HasText(u) == "words" \in DOMAIN u.text

\* x or "today" (bot.py 773)
OrToday(x) == IF x = None THEN "today" ELSE x.s

\* From the arrival of the update to the first await or return (bot.py
\* 757-784): ignored, the "trouble" reply, an exception out of line 772,
\* the help text, or "Checking...".
Classify ==
    /\ hpc = "update"
    /\ IF ~Authorised(update) \/ ~HasText(update)
       THEN /\ hpc' = "ignored"
            /\ UNCHANGED <<response, parsed, replies>>
       ELSE \E outcome \in ClassifierOutcomes :
            LET result == ParseIntent(outcome)
            IN  /\ response' = outcome
                /\ IF IsRaised(result)
                   THEN /\ hpc' = "done"
                        /\ replies' = Append(replies, Trouble)
                        /\ UNCHANGED parsed
                   ELSE /\ parsed' = result
                        /\ IF IsRaised(DictGet(result, "intent"))
                           THEN /\ hpc' = "escaped"
                                /\ UNCHANGED replies
                           ELSE IF Get(result.fields, "intent", Str("unknown")) = Str("unknown")
                           THEN /\ hpc' = "done"
                                /\ replies' = Append(replies, HelpText)
                           ELSE /\ hpc' = "checking"
                                /\ replies' = Append(replies, Checking)
    /\ UNCHANGED <<allowed_user_ids, update, shopify_data, fc_data, fetch_log>>
    /\ UNCHANGED <<report_vars, fetch_vars, date_vars>>

\* The try block and the final reply (bot.py 786-860).
Answer ==
    /\ hpc = "checking"
    /\ \E way \in TryBlock(Get(parsed.fields, "intent", Str("unknown")),
                           OrToday(DictGet(parsed, "period")),
                           DictGet(parsed, "channel"),
                           DictGet(parsed, "product"),
                           DictGet(parsed, "search_query")) :
        /\ replies' = Append(replies, way.reply)
        /\ fetch_log' = way.log
        /\ shopify_data' = way.shopify_data
        /\ fc_data' = way.fc_data
    /\ hpc' = "done"
    /\ UNCHANGED <<allowed_user_ids, update, response, parsed>>
    /\ UNCHANGED <<report_vars, fetch_vars, date_vars>>

InitChat ==
    /\ allowed_user_ids \in AllowedLists
    /\ update \in Updates
    /\ hpc = "update"
    /\ response = NoResult
    /\ parsed = NoResult
    /\ shopify_data = NoResult
    /\ fc_data = NoResult
    /\ replies = <<>>
    /\ fetch_log = <<>>
    /\ chat_id = NoChat
    /\ ReportIdle
    /\ FetchIdle
    /\ DatesIdle

NextChat ==
    \/ Classify
    \/ Answer

SpecChat == InitChat /\ [][NextChat]_vars

(***************************************************************************)
(* Claims about the daily report                                           *)
(***************************************************************************)

AllRaised(s) ==
    /\ Len(calls[s]) = retries
    /\ \A i \in 1..Len(calls[s]) : calls[s][i] = Raised

FirstSuccess(s) ==
    calls[s][CHOOSE i \in 1..Len(calls[s]) :
                /\ calls[s][i] /= Raised
                /\ \A j \in 1..(i - 1) : calls[s][j] = Raised]

\* C1: with a truthy DAILY_REPORT_CHAT_ID, whatever each attempt of each of
\* the five reads does, the job is registered, runs and ends ("done"); it ends
\* with every source attempted at least once and settled (a value or None)
\* and with exactly one digest sent; no run ever sends a second one.
C1_RunCompletesWithOneDigest ==
    /\ [](rpc = "done" =>
            /\ Len(outbox) = 1
            /\ \A s \in 1..NSources :
                /\ Len(calls[s]) >= 1
                /\ results[s] /= NoResult)
    /\ [](Len(outbox) <= 1)
    /\ (Truthy(chat_id) ~> (rpc = "done"))

\* A finished run in which the first source was exhausted and every later
\* source was still attempted, the second one succeeding.
C1_Witness ==
    /\ rpc = "done"
    /\ AllRaised(1)
    /\ results[1] = None
    /\ results[2] \in Returns(2)
    /\ results[5] = None
    /\ Len(outbox) = 1

\* What the line of source s must show: "unavailable" after 3 raises, else
\* the value (under key) that its first returning call gave.
C2_Line(line, s, key) ==
    IF AllRaised(s)
    THEN line = Unavailable
    ELSE /\ line /= Unavailable
         /\ line = Euro(IF key = "revenue" THEN FirstSuccess(s).revenue
                        ELSE IF key = "yesterday" THEN FirstSuccess(s).yesterday
                        ELSE FirstSuccess(s).mtd)

\* C2: in the digest that was sent, the line of a source is "unavailable"
\* exactly when all 3 of its attempts raised, and is otherwise the value
\* its first successful attempt returned; the restaurant read feeds two
\* lines the same way.
C2_DigestShowsOutcomes ==
    rpc = "done" =>
        /\ Len(outbox) = 1
        /\ C2_Line(outbox[1].yday_retail, 1, "revenue")
        /\ C2_Line(outbox[1].mtd_retail, 2, "revenue")
        /\ C2_Line(outbox[1].yday_online, 3, "revenue")
        /\ C2_Line(outbox[1].mtd_online, 4, "revenue")
        /\ C2_Line(outbox[1].yday_restaurant, 5, "yesterday")
        /\ C2_Line(outbox[1].mtd_restaurant, 5, "mtd")

\* Retail (yesterday) fails 3 of 3, online (yesterday) succeeds on attempt 2
\* of 3 with 1 euro: one message, with both lines as the spec's example has.
C2_Witness ==
    /\ rpc = "done"
    /\ calls[1] = <<Raised, Raised, Raised>>
    /\ calls[3] = <<Raised, [revenue |-> 1]>>
    /\ Len(outbox) = 1
    /\ outbox[1].yday_retail = Unavailable
    /\ outbox[1].yday_online = Euro(1)

\* C3: with DAILY_REPORT_CHAT_ID unset (or 0, which the code treats alike)
\* main registers no job, and send_daily_report, when invoked, returns at
\* once: no source is called, no backoff is waited, nothing is sent and
\* nothing is raised.
C3_UnconfiguredIsNoOp ==
    ~Truthy(chat_id) =>
        /\ job_registered = FALSE
        /\ rpc \in {"idle", "skipped"}
        /\ \A s \in 1..NSources : calls[s] = <<>> /\ results[s] = NoResult
        /\ sleeps = <<>>
        /\ outbox = <<>>

\* main has run and send_daily_report was invoked with the chat id unset.
C3_Witness ==
    /\ chat_id = NoChat
    /\ started
    /\ rpc = "skipped"

(***************************************************************************)
(* Claims about the channel clients                                        *)
(***************************************************************************)

LastRequest == requests[Len(requests)]

RECURSIVE PagesOf(_)
PagesOf(reqs) == IF reqs = <<>> THEN <<>> ELSE reqs[1].page \o PagesOf(Tail(reqs))

\* The date of a document, when it has one that reads as a day.
HasDay(doc) == "date" \in DOMAIN doc /\ "iso" \in DOMAIN doc.date

\* A served page whose last (oldest) document is dated before the window.
C4_Stale(r) ==
    /\ r.page /= <<>>
    /\ HasDay(r.page[Len(r.page)])
    /\ r.page[Len(r.page)].date.iso < start_date

\* C4: fetch_flour_cloud_docs asks for offsets 0, PAGE, 2*PAGE, ... and no
\* request follows a page whose last document is dated before start_date:
\* that page ends the fetch.
C4_NoRequestAfterStalePage ==
    channel = "B" =>
        /\ \A i \in 1..Len(requests) :
            /\ requests[i].skip = (i - 1) * PAGE
            /\ \A j \in 1..(i - 1) : ~C4_Stale(requests[j])
        /\ (requests /= <<>> /\ C4_Stale(LastRequest)) => fpc = "done"

\* The second page is full and ends before the window: the fetch is over
\* after two requests.
C4_Witness ==
    /\ channel = "B"
    /\ Len(requests) = 2
    /\ Len(requests[2].page) = PAGE
    /\ C4_Stale(requests[2])
    /\ fpc = "done"

\* C5: a 2xx response of channel B whose body is JSON, is not a list and
\* has none of the keys docs / documents / data counts as an empty page:
\* the fetch ends normally and returns the in-window records gathered so far.
C5_UnlocatableIsEmptyPage ==
    (/\ channel = "B"
     /\ requests /= <<>>
     /\ LastRequest.status = 200
     /\ LastRequest.kind \in {"dict", "scalar"}
     /\ ~LastRequest.located)
    => (fpc = "done" /\ fetched = FilterDocs(all_docs))

C7_ServedInWindow(doc) ==
    /\ HasDay(doc)
    /\ start_date <= doc.date.iso
    /\ doc.date.iso <= end_date

\* C7: fetch_flour_cloud_docs returns exactly the served documents, in
\* order, whose date reads as a day in [start_date, end_date]; a document
\* with a missing or malformed date is left out and never makes the fetch
\* raise: the fetch raises only on an error status or an unreadable body.
C7_BadDateSkipsOnlyThatRecord ==
    channel = "B" =>
        /\ fpc = "done" => fetched = SelectSeq(PagesOf(requests), C7_ServedInWindow)
        /\ fpc = "request" => fetched = NoResult
        /\ fpc = "raised" =>
            \/ LastRequest.status \notin 200..299
            \/ LastRequest.kind \in {"notjson", "scalar"}

\* A full first page ends with a document whose date is malformed, so the
\* fetch goes on; a document with no date is served too, and the fetch
\* returns the one document dated in the window.
C7_Witness ==
    /\ channel = "B"
    /\ fpc = "done"
    /\ Len(requests) >= 2
    /\ Len(requests[1].page) = PAGE
    /\ requests[1].page[PAGE] = [type |-> "R", date |-> JunkText]
    /\ \E i \in 1..Len(all_docs) : all_docs[i] = [type |-> "R"]
    /\ Len(fetched) = 1

(***************************************************************************)
(* Claims about the aggregators                                            *)
(***************************************************************************)

\* The fetched records hold a field that does not convert to a number.
C8_HasBadNumber ==
    \E i \in 1..Len(fetched) :
        \/ "total_price" \in DOMAIN fetched[i] /\ Float(fetched[i].total_price) = ValueError
        \/ \E j \in 1..Len(Get(fetched[i], "line_items", <<>>)) :
            LET item == fetched[i].line_items[j]
            IN  Float(item.price) = ValueError \/ "int" \notin DOMAIN item.quantity
        \/ \E j \in 1..Len(Get(fetched[i], "items", <<>>)) :
            LET item == fetched[i].items[j]
            IN  Float(item.amount) = ValueError \/ Float(item.totalIncVat) = ValueError

\* C8: whatever the fetched records hold, also a price, amount or quantity
\* that is no number, each of shopify_sales, shopify_product_sales,
\* flour_cloud_sales and flour_cloud_product_sales returns an aggregate:
\* the failure of one record does not abort the aggregation.
C8_CoercionFailureIsScoped ==
    (agg /= NoResult /\ C8_HasBadNumber) => ~IsRaised(agg)

(***************************************************************************)
(* Claims about the period resolver                                        *)
(***************************************************************************)

\* The month before month m of year y.
PrevMonth(y, m) == IF m = 1 THEN [year |-> y - 1, month |-> 12] ELSE [year |-> y, month |-> m - 1]

\* C9: get_date_range("last_month") starts at 00:00:00 UTC on the 1st of
\* the month before now's and ends one second before 00:00:00 UTC on the
\* 1st of now's month.
C9_LastMonthUtc ==
    (dpc = "resolved" /\ period = "last_month") =>
        LET pm == PrevMonth(now.year, now.month)
        IN  /\ utc_range.start =
                [year |-> pm.year, month |-> pm.month, day |-> 1, second |-> 0]
            /\ utc_range.end =
                [year |-> pm.year, month |-> pm.month,
                 day |-> DaysInMonth(pm.year, pm.month), second |-> 86399]

\* C10: last_month rolls over the year. With now in January of year Y both
\* bounds of get_date_range lie in December of Y-1, on the 1st and the 31st.
\* _berlin_date_range gives the first and the last day of the month before
\* today's, so [Dec 1, Dec 31] of Y-1 for a today in January, Jan 15 included.
C10_LastMonthRollsOver ==
    (dpc = "resolved" /\ period = "last_month") =>
        LET today == BerlinToday
            pm == PrevMonth(today.year, today.month)
        IN  /\ civil_range.start = [year |-> pm.year, month |-> pm.month, day |-> 1]
            /\ civil_range.end =
                [year |-> pm.year, month |-> pm.month, day |-> DaysInMonth(pm.year, pm.month)]
            /\ today.month = 1 =>
                /\ civil_range.start = [year |-> today.year - 1, month |-> 12, day |-> 1]
                /\ civil_range.end = [year |-> today.year - 1, month |-> 12, day |-> 31]
            /\ now.month = 1 =>
                /\ DateOf(utc_range.start) = [year |-> now.year - 1, month |-> 12, day |-> 1]
                /\ DateOf(utc_range.end) = [year |-> now.year - 1, month |-> 12, day |-> 31]

\* now is January 15 of the last year, in UTC and in Berlin, and last_month
\* was resolved to December of the year before.
C10_Witness ==
    /\ dpc = "resolved"
    /\ period = "last_month"
    /\ DateOf(now) = [year |-> LastYear, month |-> 1, day |-> 15]
    /\ BerlinToday = [year |-> LastYear, month |-> 1, day |-> 15]
    /\ civil_range = [start |-> [year |-> LastYear - 1, month |-> 12, day |-> 1],
                      end |-> [year |-> LastYear - 1, month |-> 12, day |-> 31]]

\* C11: get_date_range("last_week") starts at 00:00:00 UTC on the Monday of
\* the week before now's and ends one second before 00:00:00 UTC on the
\* Monday of now's week: the 7 calendar days Monday..Sunday, for every now,
\* a Monday 00:00:01 and a Sunday 23:59:59 included.
C11_LastWeekUtc ==
    (dpc = "resolved" /\ period = "last_week") =>
        LET first == ToOrdinal(DateOf(utc_range.start))
            last == ToOrdinal(DateOf(utc_range.end))
            today == ToOrdinal(DateOf(now))
        IN  /\ Weekday(DateOf(utc_range.start)) = 0
            /\ utc_range.start.second = 0
            /\ Weekday(DateOf(utc_range.end)) = 6
            /\ utc_range.end.second = 86399
            /\ last - first + 1 = 7
            /\ last + 1 <= today
            /\ today <= last + 7

\* now is a Monday at 00:00:01 and last_week was resolved to the Monday
\* 00:00:00 .. Sunday 23:59:59 that ended two seconds earlier.
C11_Witness ==
    /\ dpc = "resolved"
    /\ period = "last_week"
    /\ Weekday(DateOf(now)) = 0
    /\ now.second = 1
    /\ utc_range.start = At(DateMinusDays(DateOf(now), 7), 0)
    /\ utc_range.end = At(DateMinusDays(DateOf(now), 1), 86399)

\* a <= b for two datetimes of the same zone.
DateTimeLeq(a, b) ==
    \/ ToOrdinal(DateOf(a)) < ToOrdinal(DateOf(b))
    \/ ToOrdinal(DateOf(a)) = ToOrdinal(DateOf(b)) /\ a.second <= b.second

\* C12: for each of the seven period tokens and for an unknown token, and
\* for every now, the window get_date_range resolves and the window
\* _berlin_date_range resolves both have end >= start; the unknown token
\* resolves as "today" does.
C12_EndNotBeforeStart ==
    dpc = "resolved" =>
        /\ DateTimeLeq(utc_range.start, utc_range.end)
        /\ ToOrdinal(civil_range.start) <= ToOrdinal(civil_range.end)
        /\ period \notin {"today", "yesterday", "last_7_days", "this_week",
                          "last_week", "this_month", "last_month"} =>
                /\ utc_range = [start |-> At(DateOf(now), 0), end |-> now]
                /\ civil_range = [start |-> BerlinToday, end |-> BerlinToday]

\* An unknown token was resolved at 23:00 UTC, when Berlin is a day ahead:
\* the UTC window is midnight..now and the civil window is Berlin's today.
C12_Witness ==
    /\ dpc = "resolved"
    /\ period = "next_year"
    /\ now.second = 82800
    /\ utc_range.end = now
    /\ utc_range.start.second = 0
    /\ ToOrdinal(civil_range.start) = ToOrdinal(DateOf(now)) + 1

(***************************************************************************)
(* Claims about aggregation                                                *)
(***************************************************************************)

\* The orders of a listing that are neither refunded nor voided, by count
\* and by the sum of their total_price.
RECURSIVE C13_Count(_)
C13_Count(orders) ==
    IF orders = <<>> THEN 0
    ELSE (IF Get(orders[1], "financial_status", "None") \in {"refunded", "voided"} THEN 0 ELSE 1)
         + C13_Count(Tail(orders))
RECURSIVE C13_Revenue(_)
C13_Revenue(orders) ==
    IF orders = <<>> THEN 0
    ELSE (IF Get(orders[1], "financial_status", "None") \in {"refunded", "voided"} THEN 0
          ELSE orders[1].total_price.num)
         + C13_Revenue(Tail(orders))

\* C13: whatever orders the pages of a fetch held, shopify_sales returns
\* order_count = the number of them that are neither refunded nor voided
\* and revenue = the sum of total_price over exactly those.
C13_VoidedAndRefundedExcluded ==
    (channel = "A" /\ fpc = "done") =>
        /\ agg.order_count = C13_Count(all_docs)
        /\ agg.revenue = C13_Revenue(all_docs)

\* The listing held one voided and one paid order of value 1: the aggregate
\* is one order and a revenue of 1.
C13_Witness ==
    /\ channel = "A"
    /\ fpc = "done"
    /\ all_docs = <<[financial_status |-> "voided", total_price |-> NumText(1)],
                    [financial_status |-> "paid", total_price |-> NumText(1)]>>
    /\ agg = [revenue |-> 1, order_count |-> 1]

\* A document that has line items, every one of them flagged cancelled.
C14_AllCancelled(doc) ==
    LET items == Get(doc, "items", <<>>)
    IN  items /= <<>> /\ \A j \in 1..Len(items) : Get(items[j], "cancelled", FALSE)

\* C14: the aggregate flour_cloud_sales returns counts only what is left
\* after the cancelled exclusion: transaction_count is the number of fetched
\* documents other than those whose line items are all cancelled, which
\* add nothing to revenue either.
C14_CountsOnlyIncluded ==
    ("fn" \in DOMAIN query /\ query.fn = "flour_cloud_sales" /\ ~IsRaised(agg)) =>
        /\ agg.transaction_count =
                Len(SelectSeq(fetched, LAMBDA doc : ~C14_AllCancelled(doc)))
        /\ agg.revenue = SumSeq([i \in 1..Len(fetched) |->
                            IF C14_AllCancelled(fetched[i]) THEN 0
                            ELSE SumSeq([j \in 1..Len(Counted(fetched[i])) |->
                                            ItemTotal(Counted(fetched[i])[j]).val])])

(***************************************************************************)
(* Claims about the Telegram handler                                       *)
(***************************************************************************)

\* The classifier call raised, or what parse_intent makes of its answer is
\* no JSON object.
C15_InvalidStructure ==
    LET result == ParseIntent(response)
    IN  IsRaised(result) \/ result.json /= "object"

\* C15: an update from an authorised user with a non-empty text always ends
\* in a reply and no exception leaves handle_message: when the classifier
\* call raises or its answer is no JSON object (valid JSON that is not an
\* object included) the only reply is the "trouble understanding" one, and
\* when a read raises the last reply is "Couldn't fetch data", each read
\* having been made once.
C15_AlwaysReplies ==
    (hpc /= "update" /\ Authorised(update) /\ HasText(update)) =>
        /\ hpc \in {"checking", "done"}
        /\ replies /= <<>>
        /\ C15_InvalidStructure => (hpc = "done" /\ replies = <<Trouble>>)
        /\ (hpc = "done" /\ \E i \in 1..Len(fetch_log) : fetch_log[i].raised) =>
                /\ replies[Len(replies)].kind = "couldnt_fetch"
                /\ \A i, j \in 1..Len(fetch_log) :
                        fetch_log[i].fn = fetch_log[j].fn => i = j

\* C16: when both product reads of a cross-channel request returned, the
\* reply is the "No sales found ... on either channel" message if the two
\* quantities add up to zero and the two revenues add up to zero, and
\* otherwise the report with each channel's revenue and units and their
\* sums as the combined figures.
C16_NoSalesOnEitherChannel ==
    (hpc = "done"
     /\ fetch_log = <<[fn |-> "shopify_product_sales", raised |-> FALSE],
                      [fn |-> "flour_cloud_product_sales", raised |-> FALSE]>>) =>
        LET reply == replies[Len(replies)]
            qty == shopify_data.quantity + fc_data.quantity
            rev == shopify_data.revenue + fc_data.revenue
        IN  IF qty = 0 /\ rev = 0
            THEN reply = [kind |-> "no_sales_either", product |-> shopify_data.product,
                          label |-> PeriodLabel(shopify_data.period)]
            ELSE /\ reply.kind = "cross_channel"
                 /\ reply.online = Euro(shopify_data.revenue)
                 /\ reply.online_units = shopify_data.quantity
                 /\ reply.retail = Euro(fc_data.revenue)
                 /\ reply.retail_units = fc_data.quantity
                 /\ reply.combined = Euro(rev)
                 /\ reply.combined_units = qty

\* Rice last week sold nothing online and nothing in the shop: the reply
\* after "Checking..." is the no-sales message.
C16_Witness ==
    /\ hpc = "done"
    /\ shopify_data = [product |-> "rice", quantity |-> 0, revenue |-> 0, period |-> "last_week"]
    /\ fc_data = [product |-> "rice", quantity |-> 0, revenue |-> 0, period |-> "last_week"]
    /\ replies = <<Checking, [kind |-> "no_sales_either", product |-> "rice",
                               label |-> "last week"]>>

(***************************************************************************)
(* Claims about the retry loop of the daily report                         *)
(***************************************************************************)

\* Source s has settled: its last call returned, or it was called 3 times.
C17_Settled(s) ==
    /\ calls[s] /= <<>>
    /\ calls[s][Len(calls[s])] /= Raised \/ Len(calls[s]) = 3

\* C17: in a run of the daily report every source is called at most 3
\* times and never again after a call that returned; the sleeps are of 300
\* seconds, exactly one after each failed call that is not the third of
\* its source, and while one is pending no call is made; a source is
\* first called only when every source before it has settled.
C17_RetriesAndBackoff ==
    /\ \A s \in 1..NSources :
        /\ Len(calls[s]) <= 3
        /\ \A i \in 1..(Len(calls[s]) - 1) : calls[s][i] = Raised
        /\ calls[s] /= <<>> => \A t \in 1..(s - 1) : C17_Settled(t)
    /\ {sleeps[k] : k \in 1..Len(sleeps)} =
            {e \in {<<s, a, 300>> : s \in 1..NSources, a \in 1..2} :
                Len(calls[e[1]]) >= e[2] /\ calls[e[1]][e[2]] = Raised}
    /\ Cardinality({sleeps[k] : k \in 1..Len(sleeps)}) = Len(sleeps)
    /\ rpc = "sleep" =>
            /\ Len(calls[src]) = attempt
            /\ attempt < 3
            /\ calls[src][attempt] = Raised
            /\ sleeps[Len(sleeps)] = <<src, attempt, 300>>

\* The first source failed 3 times and the second failed twice before it
\* returned: two sleeps each, none after the third failure or the success,
\* and the other sources were called once.
C17_Witness ==
    /\ rpc = "done"
    /\ calls[1] = <<Raised, Raised, Raised>>
    /\ Len(calls[2]) = 3
    /\ calls[2][3] /= Raised
    /\ \A s \in 3..NSources : Len(calls[s]) = 1
    /\ sleeps = <<<<1, 1, 300>>, <<1, 2, 300>>, <<2, 1, 300>>, <<2, 2, 300>>>>

(***************************************************************************)
(* Claims about the pagination of fetch_shopify_orders                     *)
(***************************************************************************)

\* The response of request r carries a rel="next" link, and its target.
C18_HasNext(r) == \E k \in 1..Len(r.link) : r.link[k].rel = "next"
C18_NextOf(r) ==
    r.link[CHOOSE k \in 1..Len(r.link) :
                r.link[k].rel = "next" /\ \A j \in 1..(k - 1) : r.link[j].rel /= "next"].target

\* Request r got a full page with a next link: the only page after which
\* the loop goes on.
C18_GoesOn(r) ==
    /\ r.status = 200
    /\ Len(r.page) = ShopifyLimit
    /\ C18_HasNext(r)

\* C18: fetch_shopify_orders starts at the orders listing and follows the
\* next link: a request is followed by another only when its page was full
\* and its response carried a rel="next" link, and then the next request
\* goes to that link's target; the fetch ends at the first page that is
\* short or has no next link, and returns the orders of all fetched pages
\* that are neither refunded nor voided, in the order they were fetched.
C18_FollowsNextLink ==
    channel = "A" =>
        /\ requests /= <<>> => requests[1].url = "orders"
        /\ \A i \in 1..Len(requests) :
                (i < Len(requests) \/ fpc = "request") => C18_GoesOn(requests[i])
        /\ \A i \in 1..(Len(requests) - 1) : requests[i + 1].url = C18_NextOf(requests[i])
        /\ fpc = "request" /\ requests /= <<>> => url = C18_NextOf(LastRequest)
        /\ fpc = "done" =>
                /\ ~C18_GoesOn(LastRequest)
                /\ LastRequest.status = 200
                /\ fetched = SelectSeq(PagesOf(requests), LAMBDA o :
                        Get(o, "financial_status", "None") \notin {"refunded", "voided"})

\* A full first page (one voided, one paid order) whose response names
\* page_info_a after a "previous" part, then a short second page fetched
\* from page_info_a: the fetch ends there with the two paid orders.
C18_Witness ==
    /\ channel = "A"
    /\ fpc = "done"
    /\ Len(requests) = 2
    /\ requests[1].page = <<[financial_status |-> "voided", total_price |-> NumText(1)],
                            [financial_status |-> "paid", total_price |-> NumText(1)]>>
    /\ requests[1].link = <<[target |-> "page_info_0", rel |-> "previous"],
                            [target |-> "page_info_a", rel |-> "next"]>>
    /\ requests[2].url = "page_info_a"
    /\ requests[2].page = <<[financial_status |-> "paid", total_price |-> NumText(2)]>>
    /\ fetched = <<[financial_status |-> "paid", total_price |-> NumText(1)],
                   [financial_status |-> "paid", total_price |-> NumText(2)]>>

====
